---------------------------- MODULE Spec2Model ----------------------------
(***************************************************************************)
(* Model of xornet-cloud/Backend's DatabaseManager: the machine liveness   *)
(* sweep (cleanup_database), its scheduling (connect_database), the        *)
(* machine heartbeat (login_machine) and the user login (login_user).      *)
(*                                                                         *)
(* Time is counted in seconds (the code uses milliseconds: 1000 * 10 and   *)
(* 1000 * 60 * 60 * 24 * 30); only differences of times are compared.      *)
(* Every await of the code is a separate step, so that handlers and the    *)
(* sweep interleave exactly where the event loop lets them.                *)
(***************************************************************************)
EXTENDS Integers, Sequences, FiniteSets, TLC

VARIABLES
    clock,          \* Date.now(), in seconds
    ticks,          \* number of clock advances so far (bounds the run)
    shard,          \* process.env.SHARD_ID
    proc,           \* "connecting" | "running" | "exited"
    db,             \* the machines collection: machine -> stored document
    heartbeat,      \* history: time of the last successful login_machine
    errlog,         \* what Logger.error has reported
    timerInstalled, \* setInterval(() => this.cleanup_database(), 24h) is set
    timerNext,      \* when that interval fires next
    sweepPc,        \* "idle" | "find" | "settle"
    sweepFirst,     \* the sweep in flight is the one connect_database started
    sweepNow,       \* Date.now() as the sweep's loop read it
    sweepRead,      \* the documents as machines.find({}) returned them
    sweepDocs,      \* the same documents after the loop's assignments
    promises,       \* the promises array of the sweep
    sweepResult,    \* "none" | "skipped" | "resolved" | "rejected"
    loginPc,        \* login_machine: "idle" | "find" | "save"
    loginTok,       \* its access_token argument
    loginM,         \* the machine findOne matched
    loginDoc,       \* the in-memory document
    loginDirty,     \* whether the assignment modified the document
    loginResult,    \* "none" | "ok" | "Invalid access token" | "storage.error"
    users,          \* the users collection: username -> stored password
    userPc,         \* login_user: "idle" | "find" | "compare"
    userName,       \* its username argument
    userPw,         \* its password argument
    userResult,     \* "none" | "ok" | the rejection
    failures,       \* history: <<cause, rejection>> of the failed logins
    emails,         \* the users collection: username -> stored email
    userEmail,      \* new_user: the email of its form
    userError,      \* history: the error the storage call of the user call threw
    raced,          \* history: machines whose login_machine completed after
                    \* the running sweep read them and before its save() did
    createPc,       \* new_machine, new_label: "idle" | "machine" | "label"
    createArgs,     \* the input of the call
    createResult,   \* "none" | "ok" | the rejection
    machineMeta,    \* the machines collection: machine -> the fields set at creation
    labels,         \* the labels collection: the set of stored labels
    avatarUrl,      \* validate_avatar_url: the url of the last call
    avatarResult,   \* "none" | "true" | "false": what the call returned
    routePc,        \* POST /signup: "idle" | "validate" | "add" | "done"
    routeBody,      \* req.body
    routeForm,      \* var form is assigned (it is undefined until then)
    responses,      \* the status codes of the responses written to the client
    jsonCalls,      \* history: the calls of res.status(..).json(..)
    addCalls,       \* history: the calls of User.add
    routeResult     \* "none" | "returned" | the error the handler rejected with

machineVars == <<clock, ticks, shard, proc, db, heartbeat, errlog,
                 timerInstalled, timerNext, sweepPc, sweepFirst, sweepNow,
                 sweepRead, sweepDocs, promises, sweepResult,
                 loginPc, loginTok, loginM, loginDoc, loginDirty,
                 loginResult, raced>>

signupVars == <<emails, userEmail, userError>>

userVars == <<users, userPc, userName, userPw, userResult, failures,
              signupVars>>

createVars == <<createPc, createArgs, createResult, machineMeta, labels>>

avatarVars == <<avatarUrl, avatarResult>>

routeVars == <<routePc, routeBody, routeForm, responses, jsonCalls, addCalls,
               routeResult>>

vars == <<machineVars, userVars, createVars, avatarVars, routeVars>>

----------------------------------------------------------------------------
(* Bounds of the model *)

MaxTicks == 2     \* clock advances per run
StartSlack == 20  \* seconds between the oldest timestamps and the eviction age

----------------------------------------------------------------------------
(* Program constants *)

TenSeconds == 10                \* 1000 * 10 ms
ThirtyDays == 60 * 60 * 24 * 30  \* 1000 * 60 * 60 * 24 * 30 ms
OneDay == 60 * 60 * 24           \* 1000 * 60 * 60 * 24 ms

Unknown == "Unknown"
Online == "Online"
Offline == "Offline"
MachineStatus == {Unknown, Online, Offline}

Undefined == -1   \* a field that is not set

Machines == {"m1", "m2"}
MachineOrder == <<"m1", "m2">>   \* the order find({}) returns the documents in

\* the access_token stored on each machine
access_token(m) == IF m = "m1" THEN "t1" ELSE "t2"
\* the tokens callers present: the first machine's, and one no machine has
Tokens == {"t1", "tX"}

\* SHARD_ID: not set, set to the empty string, "1", or another shard
ShardIds == {"unset", "", "1", "2"}

NoDoc == [status |-> "none", last_update |-> Undefined]

StartClock == ThirtyDays + StartSlack

\* The ages that documents found in the store at start-up may have.
StartAges == {0, ThirtyDays}

\* Documents the store may hold when the process starts: a machine that was
\* created and never reported, or one that reported and is Online or Offline.
StartDocs ==
    {[status |-> Unknown, last_update |-> Undefined]}
    \cup {[status |-> s, last_update |-> StartClock - a] :
              s \in {Online, Offline}, a \in StartAges}

TickSteps == {1, TenSeconds, OneDay}

----------------------------------------------------------------------------
(* Users: strings are sequences of characters *)

MinPassword == 4
MaxPassword == 64
MinUsername == 4
MaxUsername == 32

Digits == {"0", "1", "2", "3", "4", "5", "6", "7", "8", "9"}
Letters == {"a", "b", "c", "d", "e", "f", "g", "h", "i", "j", "k", "l", "m",
            "n", "o", "p", "q", "r", "s", "t", "u", "v", "w", "x", "y", "z",
            "A", "B", "C", "D", "E", "F", "G", "H", "I", "J", "K", "L", "M",
            "N", "O", "P", "Q", "R", "S", "T", "U", "V", "W", "X", "Y", "Z"}

\* Joi.string().required().min(4).max(64).not().empty()
validate_password(password) ==
    Len(password) >= MinPassword /\ Len(password) <= MaxPassword

\* Joi.string().required().min(4).max(32).alphanum().not().empty()
validate_username(username) ==
    /\ Len(username) >= MinUsername
    /\ Len(username) <= MaxUsername
    /\ \A i \in 1..Len(username) : username[i] \in Letters \cup Digits

NameAlice == <<"a", "l", "i", "c", "e">>
NameBob4 == <<"b", "o", "b", "4">>
NameCarol == <<"C", "a", "r", "o", "l">>
NameShort == <<"b", "o", "b">>
NameSymbol == <<"a", "l", "!", "c", "e">>
NameLong == [i \in 1..(MaxUsername + 1) |-> "a"]
PwGood == <<"p", "a", "s", "s">>
PwOther == <<"w", "o", "r", "d", "5">>
PwShort == <<"p", "w", "d">>

\* the usernames that may be registered, and what callers present
StoredNames == {NameAlice, NameBob4}
Usernames == {NameAlice, NameBob4, NameCarol, NameShort, NameSymbol, NameLong}
StoredPasswords == {PwGood, PwOther}
Passwords == {PwGood, PwOther, PwShort}

NoUser == <<>>   \* no document with that username

EmailAlice == <<"a", "@", "x", ".", "i", "o">>
EmailBob == <<"b", "@", "x", ".", "i", "o">>
Emails == {EmailAlice, EmailBob}

\* what users.create may throw: the server's duplicate key error, another
\* server error, or an error that is no MongoServerError
DuplicateKeyError == "MongoServerError 11000"
OtherErrors == {"MongoServerError 50", "MongooseError 11000",
                "MongoNetworkError"}
NoError == "none"

\* error instanceof MongoServerError, and error.code
is_MongoServerError(error) ==
    error \in {"MongoServerError 11000", "MongoServerError 50"}
error_code(error) ==
    IF error \in {"MongoServerError 11000", "MongooseError 11000"} THEN 11000
    ELSE IF error = "MongoServerError 50" THEN 50
    ELSE Undefined

\* user.compare_password(password): the stored hash is that of password
compare_password(stored, password) == stored = password

----------------------------------------------------------------------------
(* Machines and labels as they are created *)

HexDigits == Digits \cup {"a", "b", "c", "d", "e", "f",
                          "A", "B", "C", "D", "E", "F"}

\* Joi.string().required().uuid(), for the hyphenated form 8-4-4-4-12 (the
\* inputs below have no braces and no other separator)
validate_uuid(uuid) ==
    /\ Len(uuid) = 36
    /\ \A i \in 1..Len(uuid) :
          IF i \in {9, 14, 19, 24} THEN uuid[i] = "-"
          ELSE uuid[i] \in HexDigits

MaxHostname == 253

\* the pattern of validate_hostname: labels of letters, digits and inner
\* hyphens, joined by dots; .max(253); required() refuses the empty string
validate_hostname(hostname) ==
    /\ Len(hostname) >= 1
    /\ Len(hostname) <= MaxHostname
    /\ \A i \in 1..Len(hostname) :
          hostname[i] \in Letters \cup Digits \cup {"-", "."}
    /\ hostname[1] \in Letters \cup Digits
    /\ hostname[Len(hostname)] \in Letters \cup Digits
    /\ \A i \in 2..(Len(hostname) - 1) :
          hostname[i] = "." =>
             /\ hostname[i - 1] \in Letters \cup Digits
             /\ hostname[i + 1] \in Letters \cup Digits

UuidAlice == <<"8", "b", "b", "3", "c", "f", "5", "0", "-", "0", "7", "7", "a", "-", "4", "5", "8", "6", "-", "8", "5", "6", "7", "-", "5", "8", "f", "5", "9", "6", "5", "0", "4", "a", "0", "e">>
UuidBob == <<"1", "b", "b", "3", "c", "f", "5", "0", "-", "0", "7", "7", "a", "-", "4", "5", "8", "6", "-", "8", "5", "6", "7", "-", "5", "8", "f", "5", "9", "6", "5", "0", "4", "a", "0", "e">>
UuidGhost == <<"9", "b", "b", "3", "c", "f", "5", "0", "-", "0", "7", "7", "a", "-", "4", "5", "8", "6", "-", "8", "5", "6", "7", "-", "5", "8", "f", "5", "9", "6", "5", "0", "4", "a", "0", "f">>
UuidHardware == <<"0", "B", "B", "3", "C", "F", "5", "0", "-", "0", "7", "7", "A", "-", "4", "5", "8", "6", "-", "8", "5", "6", "7", "-", "5", "8", "F", "5", "9", "6", "5", "0", "4", "A", "0", "E">>
UuidMissingGroup == <<"8", "b", "b", "3", "c", "f", "5", "0", "-", "0", "7", "7", "a", "-", "4", "5", "8", "6", "-", "5", "8", "f", "5", "9", "6", "5", "0", "4", "a", "0", "e">>
UuidShort == <<"1", "2", "4", "1", "2", "4">>
UuidEmpty == <<>>

\* the uuid of the user stored under a username
user_uuid(username) == IF username = NameAlice THEN UuidAlice ELSE UuidBob

HostGood == <<"i", ".", "i", "m", "g", "u", "r", ".", "c", "o", "m">>
HostSpace == <<"y", "o", "u", "r", " ", "m", "o", "m">>
HostLeadingHyphen == <<"-", "o", "a", "i", "w", ".", "c", "o", "m">>
HostLong == [i \in 1..(MaxHostname + 1) |-> "a"]

\* what callers of new_machine present
HardwareUuids == {UuidHardware, UuidMissingGroup, UuidEmpty}
OwnerUuids == {UuidAlice, UuidGhost, UuidShort}
Hostnames == {HostGood, HostSpace, HostLeadingHyphen, HostLong}

LowerLetters == {"a", "b", "c", "d", "e", "f", "g", "h", "i", "j", "k", "l",
                 "m", "n", "o", "p", "q", "r", "s", "t", "u", "v", "w", "x",
                 "y", "z"}

Whitespace == {" ", "\t"}

\* String.prototype.toLowerCase, one character
toLowerCase(c) ==
    CASE c = "A" -> "a" [] c = "B" -> "b" [] c = "C" -> "c" [] c = "D" -> "d"
      [] c = "E" -> "e" [] c = "F" -> "f" [] c = "G" -> "g" [] c = "H" -> "h"
      [] c = "I" -> "i" [] c = "J" -> "j" [] c = "K" -> "k" [] c = "L" -> "l"
      [] c = "M" -> "m" [] c = "N" -> "n" [] c = "O" -> "o" [] c = "P" -> "p"
      [] c = "Q" -> "q" [] c = "R" -> "r" [] c = "S" -> "s" [] c = "T" -> "t"
      [] c = "U" -> "u" [] c = "V" -> "v" [] c = "W" -> "w" [] c = "X" -> "x"
      [] c = "Y" -> "y" [] c = "Z" -> "z" [] OTHER -> c

\* input.name.toLowerCase().replace(/\s/g, "-")
normalise_name(name) ==
    [i \in 1..Len(name) |->
        IF name[i] \in Whitespace THEN "-" ELSE toLowerCase(name[i])]

MinLabelName == 3
MaxLabelName == 16
MaxDescription == 300

validate_label_name(label_name) ==
    /\ Len(label_name) >= MinLabelName
    /\ Len(label_name) <= MaxLabelName
    /\ \A i \in 1..Len(label_name) :
          label_name[i] \in LowerLetters \cup Digits \cup {"-", "_"}

\* "" passes; otherwise # and three or six hexadecimal digits
validate_hex_color(color) ==
    \/ color = <<>>
    \/ /\ Len(color) \in {4, 7}
       /\ color[1] = "#"
       /\ \A i \in 2..Len(color) : color[i] \in HexDigits

\* the icons of LABEL_ICONS
LABEL_ICONS == {"server"}

validate_label_icon(label_icon) == label_icon \in LABEL_ICONS

\* Joi.string().required().max(300): required() refuses the empty string
validate_label_description(label_description) ==
    /\ Len(label_description) >= 1
    /\ Len(label_description) <= MaxDescription

\* the colour randomHexColor() returns
RandomColor == <<"#", "3", "f", "a", "9", "c", "1">>

LabelWeb == <<"W", "e", "b", " ", "1">>
LabelUnder == <<"a", "_", "b">>
LabelEmpty == <<>>
LabelShort == <<"a", "b">>
LabelLong == [i \in 1..(MaxLabelName + 1) |-> "a"]
LabelSymbol == <<"d", "b", "!", "!">>
ColorNone == <<>>
ColorSix == <<"#", "0", "0", "0", "0", "0", "0">>
ColorThree == <<"#", "f", "f", "f">>
ColorTwo == <<"#", "f", "f">>
ColorFive == <<"#", "f", "f", "f", "f", "f">>
IconNone == ""
DescNone == <<>>
DescShort == <<"d", "b">>
DescLong == [i \in 1..(MaxDescription + 1) |-> "d"]

\* what callers of new_label present: a well-formed input, and the inputs
\* that differ from it in one field
LabelBase ==
    [op |-> "new_label", owner_uuid |-> UuidAlice, name |-> LabelWeb,
     color |-> ColorThree, icon |-> "server", description |-> DescShort]

LabelInputs ==
    {LabelBase}
    \cup {[LabelBase EXCEPT !.owner_uuid = o] : o \in {UuidGhost, UuidShort}}
    \cup {[LabelBase EXCEPT !.name = n] :
             n \in {LabelUnder, LabelEmpty, LabelShort, LabelLong, LabelSymbol}}
    \cup {[LabelBase EXCEPT !.color = c] :
             c \in {ColorNone, ColorSix, ColorTwo, ColorFive}}
    \cup {[LabelBase EXCEPT !.icon = i] : i \in {IconNone, "bogus"}}
    \cup {[LabelBase EXCEPT !.description = d] : d \in {DescNone, DescLong}}

\* labels kept in the model's labels collection
MaxLabels == 1

NoMeta == [hardware_uuid |-> <<>>, owner_uuid |-> <<>>, name |-> <<>>]
NoArgs == [op |-> "none"]

\* req.body while no request is there
NoBody == [username |-> <<>>, password |-> <<>>, has_repeat |-> FALSE,
           repeat_password |-> <<>>, email |-> <<>>]

----------------------------------------------------------------------------
(* cleanup_database: the decision the loop takes for one document *)

\* JavaScript's !x for a number or undefined
Falsy(x) == x = Undefined \/ x = 0

\* Variants of reap_check with a plausible slip each: the demotion test
\* before the eviction test; eviction at the 30-day boundary already; the
\* demotion whatever the status.
reap_check_demote_first(machine, now) ==
    IF machine.status = Online /\ ~Falsy(machine.last_update)
       /\ machine.last_update < now - TenSeconds
    THEN "save"
    ELSE IF Falsy(machine.last_update) \/ machine.last_update < now - ThirtyDays
         THEN "delete"
         ELSE "none"

reap_check_evict_at_boundary(machine, now) ==
    IF Falsy(machine.last_update) \/ machine.last_update <= now - ThirtyDays
    THEN "delete"
    ELSE IF machine.status = Online /\ machine.last_update < now - TenSeconds
         THEN "save"
         ELSE "none"

reap_check_any_status(machine, now) ==
    IF Falsy(machine.last_update) \/ machine.last_update < now - ThirtyDays
    THEN "delete"
    ELSE IF machine.last_update < now - TenSeconds
         THEN "save"
         ELSE "none"

\* "delete", "save" (after status := Offline) or "none"
reap_check(machine, now) ==
    IF Falsy(machine.last_update) \/ machine.last_update < now - ThirtyDays
    THEN "delete"
    ELSE IF machine.status = Online /\ machine.last_update < now - TenSeconds
         THEN "save"
         ELSE "none"

\* the document after the loop body ran on it
reap_assign(machine, now) ==
    IF reap_check(machine, now) = "save"
    THEN [machine EXCEPT !.status = Offline]
    ELSE machine

\* the promises array the loop builds over the documents read, in order
RECURSIVE cleanup_loop(_, _, _)
cleanup_loop(i, docs, now) ==
    IF i > Len(MachineOrder) THEN <<>>
    ELSE LET m == MachineOrder[i]
             rest == cleanup_loop(i + 1, docs, now)
         IN IF docs[m] = NoDoc \/ reap_check(docs[m], now) = "none"
            THEN rest
            ELSE <<[op |-> reap_check(docs[m], now), m |-> m,
                    state |-> "pending"]>> \o rest

\* Variant of shard_skips: the guard is missing
shard_skips_never(id) == FALSE

\* if (process.env.SHARD_ID && process.env.SHARD_ID !== "1") return;
shard_skips(id) == id \notin {"unset", ""} /\ id # "1"

----------------------------------------------------------------------------
\* the machines' side when the process starts, for a given store and SHARD_ID
MachineInit(store, id) ==
    /\ clock = StartClock
    /\ ticks = 0
    /\ shard = id
    /\ proc = "connecting"
    /\ db = store
    /\ heartbeat = [m \in Machines |-> db[m].last_update]
    /\ errlog = {}
    /\ timerInstalled = FALSE
    /\ timerNext = 0
    /\ sweepPc = "idle"
    /\ sweepFirst = FALSE
    /\ sweepNow = 0
    /\ sweepRead = [m \in Machines |-> NoDoc]
    /\ sweepDocs = [m \in Machines |-> NoDoc]
    /\ promises = <<>>
    /\ sweepResult = "none"
    /\ loginPc = "idle"
    /\ loginTok = "tX"
    /\ loginM = "m1"
    /\ loginDoc = NoDoc
    /\ loginDirty = FALSE
    /\ loginResult = "none"
    /\ raced = {}

\* the users' side with no call in flight, for a given users collection
UserInit(coll) ==
    /\ users = coll
    /\ userPc = "idle"
    /\ userName = <<>>
    /\ userPw = <<>>
    /\ userResult = "none"
    /\ failures = {}
    /\ emails = [u \in DOMAIN coll |->
                    IF coll[u] = NoUser THEN NoUser
                    ELSE IF u = NameAlice THEN EmailAlice ELSE EmailBob]
    /\ userEmail = <<>>
    /\ userError = NoError

\* the creating side with no call in flight and nothing created
CreateInit ==
    /\ routePc = "idle"
    /\ routeBody = NoBody
    /\ routeForm = FALSE
    /\ responses = <<>>
    /\ jsonCalls = 0
    /\ addCalls = 0
    /\ routeResult = "none"
    /\ avatarUrl = <<>>
    /\ avatarResult = "none"
    /\ createPc = "idle"
    /\ createArgs = NoArgs
    /\ createResult = "none"
    /\ machineMeta = [m \in Machines |-> NoMeta]
    /\ labels = {}

Init ==
    /\ \E store \in [Machines -> StartDocs], id \in ShardIds :
          MachineInit(store, id)
    /\ UserInit([u \in StoredNames |-> NoUser])
    /\ CreateInit

sweepVars == <<sweepPc, sweepFirst, sweepNow, sweepRead, sweepDocs, promises,
               sweepResult>>
loginVars == <<loginPc, loginTok, loginM, loginDoc, loginDirty,
               loginResult>>
timerVars == <<timerInstalled, timerNext>>

\* Time passes, in steps of at least a second: no storage call is in flight
\* (each takes less than that). An interval that is due fires before time
\* moves on.
Tick ==
    /\ ticks < MaxTicks
    /\ proc # "exited"
    /\ sweepPc = "idle"
    /\ loginPc = "idle"
    /\ \E d \in TickSteps :
          /\ timerInstalled => clock + d <= timerNext
          /\ clock' = clock + d
    /\ ticks' = ticks + 1
    /\ UNCHANGED <<shard, proc, db, heartbeat, errlog, timerVars, sweepVars,
                   loginVars>>
    /\ UNCHANGED userVars
    /\ UNCHANGED createVars
    /\ UNCHANGED avatarVars
    /\ UNCHANGED routeVars
    /\ UNCHANGED raced

\* cleanup_database up to its first await: the shard guard, then find({}).
\* A skipped sweep returns at once (and the first one installs the interval).
cleanup_start(first) ==
    IF shard_skips(shard)
    THEN /\ sweepResult' = "skipped"
         /\ timerInstalled' = (timerInstalled \/ first)
         /\ timerNext' = IF first THEN clock + OneDay ELSE timerNext + OneDay
         /\ UNCHANGED <<sweepPc, sweepFirst, sweepNow, sweepRead, sweepDocs,
                        promises>>
    ELSE /\ sweepPc' = "find"
         /\ sweepFirst' = first
         /\ sweepResult' = "none"
         /\ timerInstalled' = timerInstalled
         /\ timerNext' = IF first THEN timerNext ELSE timerNext + OneDay
         /\ UNCHANGED <<sweepNow, sweepRead, sweepDocs, promises>>

\* mongoose.connect resolved: the first sweep starts
connect_database_ok ==
    /\ proc = "connecting"
    /\ proc' = "running"
    /\ cleanup_start(TRUE)
    /\ UNCHANGED <<clock, ticks, shard, db, heartbeat, errlog, loginVars>>
    /\ UNCHANGED userVars
    /\ UNCHANGED createVars
    /\ UNCHANGED avatarVars
    /\ UNCHANGED routeVars
    /\ UNCHANGED raced

\* mongoose.connect rejected: Logger.error, process.exit(1)
connect_database_fail ==
    /\ proc = "connecting"
    /\ proc' = "exited"
    /\ errlog' = errlog \cup {"MongoDB failed to connect"}
    /\ UNCHANGED <<clock, ticks, shard, db, heartbeat, timerVars, sweepVars,
                   loginVars>>
    /\ UNCHANGED userVars
    /\ UNCHANGED createVars
    /\ UNCHANGED avatarVars
    /\ UNCHANGED routeVars
    /\ UNCHANGED raced

\* the interval fires: () => this.cleanup_database()
interval_fire ==
    /\ proc = "running"
    /\ timerInstalled
    /\ clock = timerNext
    /\ sweepPc = "idle"
    /\ cleanup_start(FALSE)
    /\ UNCHANGED <<clock, ticks, shard, proc, db, heartbeat, errlog, loginVars>>
    /\ UNCHANGED userVars
    /\ UNCHANGED createVars
    /\ UNCHANGED avatarVars
    /\ UNCHANGED routeVars
    /\ UNCHANGED raced

\* find({}) resolved: the loop runs over the documents and fills promises
cleanup_find_ok ==
    /\ proc = "running"
    /\ sweepPc = "find"
    /\ sweepPc' = "settle"
    /\ sweepNow' = clock
    /\ sweepRead' = db
    /\ sweepDocs' = [m \in Machines |->
                        IF db[m] = NoDoc THEN NoDoc ELSE reap_assign(db[m], clock)]
    /\ promises' = cleanup_loop(1, db, clock)
    /\ UNCHANGED <<clock, ticks, shard, proc, db, heartbeat, errlog, timerVars,
                   sweepFirst, sweepResult, loginVars>>
    /\ UNCHANGED userVars
    /\ UNCHANGED createVars
    /\ UNCHANGED avatarVars
    /\ UNCHANGED routeVars
    /\ UNCHANGED raced

\* What an unhandled promise rejection does depends on the Node.js version:
\* a warning and the process goes on, or the process ends.
AfterUnhandledRejection == {"running", "exited"}

\* find({}) rejected: cleanup_database rejects and nobody handles it; the
\* first sweep's .then(() => setInterval(...)) callback is not run.
cleanup_find_fail ==
    /\ proc = "running"
    /\ sweepPc = "find"
    /\ sweepPc' = "idle"
    /\ sweepResult' = "rejected"
    /\ proc' \in AfterUnhandledRejection
    /\ UNCHANGED <<clock, ticks, shard, db, heartbeat, errlog, timerVars,
                   sweepFirst, sweepNow, sweepRead, sweepDocs, promises,
                   loginVars>>
    /\ UNCHANGED userVars
    /\ UNCHANGED createVars
    /\ UNCHANGED avatarVars
    /\ UNCHANGED routeVars
    /\ UNCHANGED raced

\* Variant of save_finds: save() takes a document that is gone as stored
save_finds_always(store, m) == TRUE

\* save() of a loaded document is an update by _id and never an insert: it
\* fulfils only while the document is stored (DocumentNotFoundError if not)
save_finds(store, m) == store[m] # NoDoc

\* Variant of apply_write: a fulfilled save() writes nothing
apply_write_delete_only(p, store) ==
    IF p.op = "delete"
    THEN [store EXCEPT ![p.m] = NoDoc]
    ELSE store

\* what a fulfilled delete() or save() writes to the store
apply_write(p, store) ==
    IF p.op = "delete"
    THEN [store EXCEPT ![p.m] = NoDoc]
    ELSE [store EXCEPT ![p.m].status = sweepDocs[p.m].status]

\* one of the sweep's promises fulfils
cleanup_settle_ok ==
    /\ proc = "running"
    /\ sweepPc = "settle"
    /\ \E i \in 1..Len(promises) :
          /\ promises[i].state = "pending"
          /\ promises[i].op = "save" => save_finds(db, promises[i].m)
          /\ promises' = [promises EXCEPT ![i].state = "fulfilled"]
          /\ db' = apply_write(promises[i], db)
    /\ UNCHANGED <<clock, ticks, shard, proc, heartbeat, errlog, timerVars,
                   sweepPc, sweepFirst, sweepNow, sweepRead, sweepDocs,
                   sweepResult, loginVars>>
    /\ UNCHANGED userVars
    /\ UNCHANGED createVars
    /\ UNCHANGED avatarVars
    /\ UNCHANGED routeVars
    /\ UNCHANGED raced

\* one of the sweep's promises rejects: the store is not changed
cleanup_settle_fail ==
    /\ proc = "running"
    /\ sweepPc = "settle"
    /\ \E i \in 1..Len(promises) :
          /\ promises[i].state = "pending"
          /\ promises' = [promises EXCEPT ![i].state = "rejected"]
    /\ UNCHANGED <<clock, ticks, shard, proc, db, heartbeat, errlog, timerVars,
                   sweepPc, sweepFirst, sweepNow, sweepRead, sweepDocs,
                   sweepResult, loginVars>>
    /\ UNCHANGED userVars
    /\ UNCHANGED createVars
    /\ UNCHANGED avatarVars
    /\ UNCHANGED routeVars
    /\ UNCHANGED raced

\* Variant of allSettled: Promise.all's join, over at the first rejection
allSettled_first_rejection(ps) ==
    \/ \E i \in 1..Len(ps) : ps[i].state = "rejected"
    \/ \A i \in 1..Len(ps) : ps[i].state # "pending"

\* await Promise.allSettled(promises) is over when no promise is pending
allSettled(ps) == \A i \in 1..Len(ps) : ps[i].state # "pending"

\* the sweep returns and its locals are gone; after the first sweep the
\* interval is installed
cleanup_finish ==
    /\ proc = "running"
    /\ sweepPc = "settle"
    /\ allSettled(promises)
    /\ sweepPc' = "idle"
    /\ sweepResult' = "resolved"
    /\ timerInstalled' = (timerInstalled \/ sweepFirst)
    /\ timerNext' = IF sweepFirst THEN clock + OneDay ELSE timerNext
    /\ sweepFirst' = FALSE
    /\ sweepNow' = 0
    /\ sweepRead' = [m \in Machines |-> NoDoc]
    /\ sweepDocs' = [m \in Machines |-> NoDoc]
    /\ promises' = <<>>
    /\ raced' = {}
    /\ UNCHANGED <<clock, ticks, shard, proc, db, heartbeat, errlog, loginVars>>
    /\ UNCHANGED userVars
    /\ UNCHANGED createVars
    /\ UNCHANGED avatarVars
    /\ UNCHANGED routeVars

----------------------------------------------------------------------------
(* login_machine(access_token) *)

\* Variant of find_by_token: the filter is lost, any stored machine matches
find_by_token_no_filter(store, tok) ==
    {m \in Machines : store[m] # NoDoc}

\* machines.findOne({ access_token })
find_by_token(store, tok) ==
    {m \in Machines : store[m] # NoDoc /\ access_token(m) = tok}

login_machine_call ==
    /\ proc = "running"
    /\ loginPc = "idle"
    /\ \E tok \in Tokens : loginTok' = tok
    /\ loginPc' = "find"
    /\ loginResult' = "none"
    /\ UNCHANGED <<clock, ticks, shard, proc, db, heartbeat, errlog, timerVars,
                   sweepVars, loginM, loginDoc, loginDirty>>
    /\ UNCHANGED userVars
    /\ UNCHANGED createVars
    /\ UNCHANGED avatarVars
    /\ UNCHANGED routeVars
    /\ UNCHANGED raced

\* the call is over: its locals are gone
login_return ==
    /\ loginTok' = "tX"
    /\ loginM' = "m1"
    /\ loginDoc' = NoDoc
    /\ loginDirty' = FALSE

\* machine.status = MachineStatus.Online: the document as save() will see it
login_assign(machine) == [machine EXCEPT !.status = Online]

\* findOne resolved: reject if no machine matched, else assign and save()
login_machine_found ==
    /\ proc = "running"
    /\ loginPc = "find"
    /\ IF find_by_token(db, loginTok) = {}
       THEN /\ loginPc' = "idle"
            /\ loginResult' = "Invalid access token"
            /\ loginTok' = "tX"
            /\ UNCHANGED <<loginM, loginDoc, loginDirty>>
       ELSE \E m \in find_by_token(db, loginTok) :
            /\ loginM' = m
            /\ loginDoc' = login_assign(db[m])
            /\ loginDirty' = (login_assign(db[m]) # db[m])
            /\ loginPc' = "save"
            /\ UNCHANGED <<loginResult, loginTok>>
    /\ UNCHANGED <<clock, ticks, shard, proc, db, heartbeat, errlog, timerVars,
                   sweepVars>>
    /\ UNCHANGED userVars
    /\ UNCHANGED createVars
    /\ UNCHANGED avatarVars
    /\ UNCHANGED routeVars
    /\ UNCHANGED raced

\* findOne or save() rejected: login_machine rejects with the storage error
login_machine_fail ==
    /\ proc = "running"
    /\ loginPc \in {"find", "save"}
    /\ loginPc' = "idle"
    /\ loginResult' = "storage.error"
    /\ login_return
    /\ UNCHANGED <<clock, ticks, shard, proc, db, heartbeat, errlog, timerVars,
                   sweepVars>>
    /\ UNCHANGED userVars
    /\ UNCHANGED createVars
    /\ UNCHANGED avatarVars
    /\ UNCHANGED routeVars
    /\ UNCHANGED raced

\* what save() of the login's document writes: the modified paths only
login_write(store, m, doc, dirty) ==
    IF dirty THEN [store EXCEPT ![m].status = doc.status] ELSE store

\* the sweep has a save() of m on its way
sweep_save_pending(m) ==
    /\ sweepPc = "settle"
    /\ \E i \in 1..Len(promises) :
          /\ promises[i].m = m
          /\ promises[i].op = "save"
          /\ promises[i].state = "pending"

\* save() resolved
login_machine_saved ==
    /\ proc = "running"
    /\ loginPc = "save"
    /\ save_finds(db, loginM)
    /\ raced' = IF sweep_save_pending(loginM) THEN raced \cup {loginM}
                ELSE raced
    /\ db' = login_write(db, loginM, loginDoc, loginDirty)
    /\ heartbeat' = [heartbeat EXCEPT ![loginM] = clock]
    /\ loginPc' = "idle"
    /\ loginResult' = "ok"
    /\ login_return
    /\ UNCHANGED <<clock, ticks, shard, proc, errlog, timerVars, sweepVars>>
    /\ UNCHANGED userVars
    /\ UNCHANGED createVars
    /\ UNCHANGED avatarVars
    /\ UNCHANGED routeVars

----------------------------------------------------------------------------
Next ==
    \/ Tick
    \/ connect_database_ok
    \/ connect_database_fail
    \/ interval_fire
    \/ cleanup_find_ok
    \/ cleanup_find_fail
    \/ cleanup_settle_ok
    \/ cleanup_settle_fail
    \/ cleanup_finish
    \/ login_machine_call
    \/ login_machine_found
    \/ login_machine_fail
    \/ login_machine_saved

Spec == Init /\ [][Next]_vars

----------------------------------------------------------------------------
(* login_user({ username, password }, headers) *)

\* this.users.findOne({ username })
find_user_doc(coll, username) ==
    IF username \in DOMAIN coll THEN coll[username] ELSE NoUser

\* history: which of the two cases a failed login was
FailureCause(coll, username, password) ==
    IF find_user_doc(coll, username) = NoUser THEN "unknown user"
    ELSE "wrong password"

\* the call up to its first await: the two validators, then find_user
login_user_call ==
    /\ userPc = "idle"
    /\ \E username \in Usernames, password \in Passwords :
          /\ userName' = username
          /\ userPw' = password
          /\ IF ~validate_password(password)
             THEN userPc' = "idle" /\ userResult' = "invalid.password"
             ELSE IF ~validate_username(username)
                  THEN userPc' = "idle" /\ userResult' = "invalid.username"
                  ELSE userPc' = "find" /\ userResult' = "none"
    /\ UNCHANGED <<users, failures>>
    /\ UNCHANGED machineVars
    /\ UNCHANGED signupVars
    /\ UNCHANGED createVars
    /\ UNCHANGED avatarVars
    /\ UNCHANGED routeVars

\* find_one: (await this.users.findOne(filter)) ?? Promise.reject("user.notFound")
\* the rejection is thrown by login_user's await and becomes its own
login_user_found ==
    /\ userPc = "find"
    /\ IF find_user_doc(users, userName) = NoUser
       THEN /\ userPc' = "idle"
            /\ userResult' = "user.notFound"
            /\ failures' = failures \cup
                  {<<FailureCause(users, userName, userPw), "user.notFound">>}
       ELSE /\ userPc' = "compare"
            /\ UNCHANGED <<userResult, failures>>
    /\ UNCHANGED <<users, userName, userPw>>
    /\ UNCHANGED machineVars
    /\ UNCHANGED signupVars
    /\ UNCHANGED createVars
    /\ UNCHANGED avatarVars
    /\ UNCHANGED routeVars

\* findOne rejected: the storage error is login_user's rejection
login_user_fail ==
    /\ userPc = "find"
    /\ userPc' = "idle"
    /\ userResult' = "storage.error"
    /\ UNCHANGED <<users, userName, userPw, failures>>
    /\ UNCHANGED machineVars
    /\ UNCHANGED signupVars
    /\ UNCHANGED createVars
    /\ UNCHANGED avatarVars
    /\ UNCHANGED routeVars

\* await user.compare_password(password), on the document that was read
login_user_compared ==
    /\ userPc = "compare"
    /\ userPc' = "idle"
    /\ IF compare_password(find_user_doc(users, userName), userPw)
       THEN /\ userResult' = "ok"
            /\ UNCHANGED failures
       ELSE /\ userResult' = "invalid credentials"
            /\ failures' = failures \cup
                  {<<FailureCause(users, userName, userPw), "invalid credentials">>}
    /\ UNCHANGED <<users, userName, userPw>>
    /\ UNCHANGED machineVars
    /\ UNCHANGED signupVars
    /\ UNCHANGED createVars
    /\ UNCHANGED avatarVars
    /\ UNCHANGED routeVars

----------------------------------------------------------------------------
(* delete_user({ username, password }) *)

\* this.users.deleteOne({ username }) as line 397 leaves it: the Query is
\* built and dropped, with no await, then(), exec() or callback, and a
\* Mongoose Query is sent to the server only by one of these
deleteOne_unawaited(coll, username) == coll

\* the call up to its first await: the two validators, then find_user
delete_user_call ==
    /\ userPc = "idle"
    /\ \E username \in Usernames, password \in Passwords :
          /\ userName' = username
          /\ userPw' = password
          /\ IF ~validate_password(password)
             THEN userPc' = "idle" /\ userResult' = "invalid.password"
             ELSE IF ~validate_username(username)
                  THEN userPc' = "idle" /\ userResult' = "invalid.username"
                  ELSE userPc' = "delfind" /\ userResult' = "none"
    /\ UNCHANGED <<users, failures>>
    /\ UNCHANGED machineVars
    /\ UNCHANGED signupVars
    /\ UNCHANGED createVars
    /\ UNCHANGED avatarVars
    /\ UNCHANGED routeVars

\* find_one rejects with "user.notFound" when there is no such user
delete_user_found ==
    /\ userPc = "delfind"
    /\ IF find_user_doc(users, userName) = NoUser
       THEN userPc' = "idle" /\ userResult' = "user.notFound"
       ELSE userPc' = "delcompare" /\ UNCHANGED userResult
    /\ UNCHANGED <<users, userName, userPw, failures>>
    /\ UNCHANGED machineVars
    /\ UNCHANGED signupVars
    /\ UNCHANGED createVars
    /\ UNCHANGED avatarVars
    /\ UNCHANGED routeVars

\* findOne rejected
delete_user_fail ==
    /\ userPc = "delfind"
    /\ userPc' = "idle"
    /\ userResult' = "storage.error"
    /\ UNCHANGED <<users, userName, userPw, failures>>
    /\ UNCHANGED machineVars
    /\ UNCHANGED signupVars
    /\ UNCHANGED createVars
    /\ UNCHANGED avatarVars
    /\ UNCHANGED routeVars

\* await user.compare_password(password); on a match the deleteOne of line
\* 397; the call resolves with undefined on a match and on a mismatch
delete_user_compared ==
    /\ userPc = "delcompare"
    /\ userPc' = "idle"
    /\ userResult' = "ok"
    /\ IF compare_password(find_user_doc(users, userName), userPw)
       THEN users' = deleteOne_unawaited(users, userName)
       ELSE UNCHANGED users
    /\ UNCHANGED <<userName, userPw, failures>>
    /\ UNCHANGED machineVars
    /\ UNCHANGED signupVars
    /\ UNCHANGED createVars
    /\ UNCHANGED avatarVars
    /\ UNCHANGED routeVars

----------------------------------------------------------------------------
(* new_user(form, headers) *)

\* the unique indexes of the collection: the username or the email is taken
is_duplicate(coll, mails, username, email) ==
    \/ coll[username] # NoUser
    \/ \E u \in DOMAIN mails : mails[u] = email

\* Variant of new_user_rejection: every error is reported as user.exists
new_user_rejection_always_exists(error) == "user.exists"

\* the catch clause: a MongoServerError with code 11000 becomes
\* "user.exists", any other error is rejected as it is
new_user_rejection(error) ==
    IF is_MongoServerError(error) /\ error_code(error) = 11000
    THEN "user.exists"
    ELSE error

\* the call up to its await: this.users.create(form)
new_user_call ==
    /\ userPc = "idle"
    /\ \E username \in StoredNames, email \in Emails,
          password \in StoredPasswords :
          /\ userName' = username
          /\ userEmail' = email
          /\ userPw' = password
    /\ userPc' = "create"
    /\ userResult' = "none"
    /\ userError' = NoError
    /\ UNCHANGED <<users, emails, failures>>
    /\ UNCHANGED machineVars
    /\ UNCHANGED createVars
    /\ UNCHANGED avatarVars
    /\ UNCHANGED routeVars

\* create resolved (no unique index is violated): user.login issues the token
new_user_created ==
    /\ userPc = "create"
    /\ ~is_duplicate(users, emails, userName, userEmail)
    /\ users' = [users EXCEPT ![userName] = userPw]
    /\ emails' = [emails EXCEPT ![userName] = userEmail]
    /\ userPc' = "idle"
    /\ userResult' = "ok"
    /\ UNCHANGED <<userName, userPw, userEmail, userError, failures>>
    /\ UNCHANGED machineVars
    /\ UNCHANGED createVars
    /\ UNCHANGED avatarVars
    /\ UNCHANGED routeVars

\* create threw the duplicate key error, or another error
new_user_rejected ==
    /\ userPc = "create"
    /\ \E error \in OtherErrors \cup
          (IF is_duplicate(users, emails, userName, userEmail)
           THEN {DuplicateKeyError} ELSE {}) :
          /\ userError' = error
          /\ userResult' = new_user_rejection(error)
    /\ userPc' = "idle"
    /\ UNCHANGED <<users, emails, userName, userPw, userEmail, failures>>
    /\ UNCHANGED machineVars
    /\ UNCHANGED createVars
    /\ UNCHANGED avatarVars
    /\ UNCHANGED routeVars

InitUsers ==
    /\ MachineInit([m \in Machines |->
                       [status |-> Unknown, last_update |-> Undefined]], "unset")
    /\ \E coll \in [StoredNames -> StoredPasswords \cup {NoUser}] : UserInit(coll)
    /\ CreateInit

NextUsers ==
    \/ login_user_call
    \/ login_user_found
    \/ login_user_fail
    \/ login_user_compared
    \/ new_user_call
    \/ new_user_created
    \/ new_user_rejected
    \/ delete_user_call
    \/ delete_user_found
    \/ delete_user_fail
    \/ delete_user_compared

SpecUsers == InitUsers /\ [][NextUsers]_vars

----------------------------------------------------------------------------
(* new_machine(input) *)

\* the call up to its await: the three validators, then machines.create
new_machine_call ==
    /\ createPc = "idle"
    /\ \E hardware_uuid \in HardwareUuids, owner_uuid \in OwnerUuids,
          hostname \in Hostnames :
          /\ createArgs' = [op |-> "new_machine",
                            hardware_uuid |-> hardware_uuid,
                            owner_uuid |-> owner_uuid, hostname |-> hostname]
          /\ IF ~validate_uuid(hardware_uuid)
             THEN createPc' = "idle" /\ createResult' = "invalid.hardware_uuid"
             ELSE IF ~validate_uuid(owner_uuid)
                  THEN createPc' = "idle" /\ createResult' = "invalid.owner_uuid"
                  ELSE IF ~validate_hostname(hostname)
                       THEN createPc' = "idle"
                            /\ createResult' = "invalid.hostname"
                       ELSE createPc' = "machine" /\ createResult' = "none"
    /\ UNCHANGED <<machineMeta, labels>>
    /\ UNCHANGED <<machineVars, userVars>>
    /\ UNCHANGED avatarVars
    /\ UNCHANGED routeVars

\* machines.create resolved: a new document with its own access token
new_machine_created ==
    /\ createPc = "machine"
    /\ \E m \in Machines :
          /\ db[m] = NoDoc
          /\ db' = [db EXCEPT ![m] = [status |-> Unknown,
                                      last_update |-> Undefined]]
          /\ machineMeta' = [machineMeta EXCEPT ![m] =
                [hardware_uuid |-> createArgs.hardware_uuid,
                 owner_uuid |-> createArgs.owner_uuid,
                 name |-> createArgs.hostname]]
    /\ createPc' = "idle"
    /\ createResult' = "ok"
    /\ UNCHANGED <<createArgs, labels>>
    /\ UNCHANGED <<clock, ticks, shard, proc, heartbeat, errlog, timerVars,
                   sweepVars, loginVars, userVars>>
    /\ UNCHANGED raced
    /\ UNCHANGED avatarVars
    /\ UNCHANGED routeVars

\* machines.create or labels.create rejected
create_fail ==
    /\ createPc \in {"machine", "label"}
    /\ createPc' = "idle"
    /\ createResult' = "storage.error"
    /\ UNCHANGED <<createArgs, machineMeta, labels>>
    /\ UNCHANGED <<machineVars, userVars>>
    /\ UNCHANGED avatarVars
    /\ UNCHANGED routeVars

----------------------------------------------------------------------------
(* new_label(input) *)

\* const color = input.color || randomHexColor()
label_color(input) == IF input.color # <<>> THEN input.color ELSE RandomColor

\* the five tests of new_label, in their order: "none" when all pass
new_label_rejection(input) ==
    IF ~validate_uuid(input.owner_uuid) THEN "invalid.owner_uuid"
    ELSE IF input.name # <<>> /\ ~validate_label_name(normalise_name(input.name))
    THEN "invalid.label.name"
    ELSE IF label_color(input) # <<>> /\ ~validate_hex_color(label_color(input))
    THEN "invalid.hex.color"
    ELSE IF input.icon # "" /\ ~validate_label_icon(input.icon)
    THEN "invalid.label.icon"
    ELSE IF /\ input.description # <<>>
            /\ ~validate_label_description(input.description)
    THEN "invalid.label.description"
    ELSE "none"

\* the call up to its await: the tests, then labels.create
new_label_call ==
    /\ createPc = "idle"
    /\ \E input \in LabelInputs :
          /\ createArgs' = input
          /\ createResult' = new_label_rejection(input)
          /\ createPc' = IF new_label_rejection(input) = "none"
                         THEN "label" ELSE "idle"
    /\ UNCHANGED <<machineMeta, labels>>
    /\ UNCHANGED <<machineVars, userVars>>
    /\ UNCHANGED avatarVars
    /\ UNCHANGED routeVars

\* labels.create resolved
new_label_created ==
    /\ createPc = "label"
    /\ Cardinality(labels) < MaxLabels
    /\ labels' = labels \cup
          {[owner_uuid |-> createArgs.owner_uuid,
            name |-> normalise_name(createArgs.name),
            color |-> label_color(createArgs),
            description |-> createArgs.description,
            icon |-> createArgs.icon]}
    /\ createPc' = "idle"
    /\ createResult' = "ok"
    /\ UNCHANGED <<createArgs, machineMeta>>
    /\ UNCHANGED <<machineVars, userVars>>
    /\ UNCHANGED avatarVars
    /\ UNCHANGED routeVars

InitCreate ==
    /\ \E id \in {"unset"} : MachineInit([m \in Machines |-> NoDoc], id)
    /\ \E pw \in {PwGood, NoUser} :
          UserInit([u \in StoredNames |-> IF u = NameAlice THEN pw ELSE NoUser])
    /\ CreateInit

NextCreate ==
    \/ new_machine_call
    \/ new_machine_created
    \/ new_label_call
    \/ new_label_created
    \/ create_fail

SpecCreate == InitCreate /\ [][NextCreate]_vars

----------------------------------------------------------------------------
(* Validators.validate_avatar_url(url) *)

TRUSTED_IMAGE_HOSTERS ==
    {<<"c", "d", "n", ".", "d", "i", "s", "c", "o", "r", "d", "a", "p", "p", ".", "c", "o", "m">>,
     <<"m", "e", "d", "i", "a", ".", "d", "i", "s", "c", "o", "r", "d", "a", "p", "p", ".", "n", "e", "t">>,
     <<"i", ".", "i", "m", "g", "u", "r", ".", "c", "o", "m">>,
     <<"i", ".", "r", "e", "d", "d", ".", "i", "t">>,
     <<"i", ".", "g", "y", "a", "z", "o", ".", "c", "o", "m">>,
     <<"i", ".", "r", "e", "d", "d", "i", "t", "u", "p", "l", "o", "a", "d", "s", ".", "c", "o", "m">>}

ALLOWED_IMAGE_EXTENSIONS ==
    {<<"p", "n", "g">>,
     <<"g", "i", "f">>,
     <<"j", "p", "g">>,
     <<"j", "p", "e", "g">>,
     <<"w", "e", "b", "p">>}

\* the least index from..Len(s) whose character is in set, Len(s) + 1 if none
first_in(s, from, set) ==
    IF \E i \in from..Len(s) : s[i] \in set
    THEN CHOOSE i \in from..Len(s) :
            s[i] \in set /\ \A j \in from..(i - 1) : s[j] \notin set
    ELSE Len(s) + 1

\* the greatest index of s whose character is c, 0 if none
last_of(s, c) ==
    IF \E i \in 1..Len(s) : s[i] = c
    THEN CHOOSE i \in 1..Len(s) :
            s[i] = c /\ \A j \in (i + 1)..Len(s) : s[j] # c
    ELSE 0

lower_case(s) == [i \in 1..Len(s) |-> toLowerCase(s[i])]

endsWith(s, t) ==
    Len(t) <= Len(s) /\ SubSeq(s, Len(s) - Len(t) + 1, Len(s)) = t

startsWith(s, t) == Len(t) <= Len(s) /\ SubSeq(s, 1, Len(t)) = t

\* new URL(url), for urls without a base: the scheme, and for the schemes
\* with an authority the userinfo, the host, the port and the path, as the
\* URL parser splits them. The urls considered have no control characters,
\* backslashes, percent signs, dot segments, numeric or bracketed hosts.
SpecialSchemes ==
    {<<"h", "t", "t", "p">>,
     <<"h", "t", "t", "p", "s">>,
     <<"f", "t", "p">>,
     <<"w", "s">>,
     <<"w", "s", "s">>}

ForbiddenHostChars == {" ", "#", "/", ":", "<", ">", "?", "@", "[", "]", "^",
                       "|", "%", "\\"}

url_colon(url) == first_in(url, 1, {":"})

url_has_scheme(url) ==
    /\ url_colon(url) > 1
    /\ url_colon(url) <= Len(url)
    /\ url[1] \in Letters
    /\ \A i \in 2..(url_colon(url) - 1) :
          url[i] \in Letters \cup Digits \cup {"+", "-", "."}

url_scheme(url) == lower_case(SubSeq(url, 1, url_colon(url) - 1))

url_is_special(url) == url_scheme(url) \in SpecialSchemes

\* the authority follows the colon and any slashes, up to / ? or #
url_authority_start(url) ==
    IF \E i \in (url_colon(url) + 1)..Len(url) : url[i] # "/"
    THEN CHOOSE i \in (url_colon(url) + 1)..Len(url) :
            url[i] # "/" /\ \A j \in (url_colon(url) + 1)..(i - 1) : url[j] = "/"
    ELSE Len(url) + 1

url_authority_end(url) ==
    first_in(url, url_authority_start(url), {"/", "?", "#"}) - 1

url_authority(url) ==
    SubSeq(url, url_authority_start(url), url_authority_end(url))

\* host and port: what follows the last @ of the authority
url_hostport(url) ==
    SubSeq(url_authority(url), last_of(url_authority(url), "@") + 1,
           Len(url_authority(url)))

url_host(url) ==
    SubSeq(url_hostport(url), 1, first_in(url_hostport(url), 1, {":"}) - 1)

url_port(url) ==
    SubSeq(url_hostport(url), first_in(url_hostport(url), 1, {":"}) + 1,
           Len(url_hostport(url)))

\* validate_url: new URL(url) does not throw
validate_url(url) ==
    /\ url_has_scheme(url)
    /\ url_is_special(url) =>
          /\ url_host(url) # <<>>
          /\ \A i \in 1..Len(url_host(url)) :
                url_host(url)[i] \notin ForbiddenHostChars
          /\ \A i \in 1..Len(url_port(url)) : url_port(url)[i] \in Digits

URL_protocol(url) == url_scheme(url) \o <<":">>

URL_hostname(url) ==
    IF url_is_special(url) THEN lower_case(url_host(url)) ELSE <<>>

\* the path ends before ? and #; an empty path of these schemes is "/"
URL_pathname(url) ==
    IF url_is_special(url)
    THEN IF url_authority_end(url) + 1
              > first_in(url, url_authority_end(url) + 1, {"?", "#"}) - 1
         THEN <<"/">>
         ELSE SubSeq(url, url_authority_end(url) + 1,
                     first_in(url, url_authority_end(url) + 1, {"?", "#"}) - 1)
    ELSE SubSeq(url, url_colon(url) + 1,
                first_in(url, url_colon(url) + 1, {"?", "#"}) - 1)

\* Variant of some_hoster: a hostname that starts with a trusted host passes
some_hoster_startsWith(hostname) ==
    \E hoster \in TRUSTED_IMAGE_HOSTERS : startsWith(hostname, hoster)

\* TRUSTED_IMAGE_HOSTERS.some((hoster) => hostname === hoster)
some_hoster(hostname) ==
    \E hoster \in TRUSTED_IMAGE_HOSTERS : hostname = hoster

\* ALLOWED_IMAGE_EXTENSIONS.some((ext) => pathname.endsWith(ext))
some_extension(pathname) ==
    \E ext \in ALLOWED_IMAGE_EXTENSIONS : endsWith(pathname, ext)

validate_avatar_url(url) ==
    IF ~validate_url(url) THEN FALSE
    ELSE IF URL_protocol(url) # <<"h", "t", "t", "p", "s", ":">> THEN FALSE
    ELSE IF ~some_hoster(URL_hostname(url)) THEN FALSE
    ELSE IF ~some_extension(URL_pathname(url)) THEN FALSE
    ELSE TRUE

\* the urls callers present: scheme, //, host, path and what follows it
UrlSchemes ==
    {<<"h", "t", "t", "p", "s", ":">>,
     <<"h", "t", "t", "p", ":">>,
     <<"f", "t", "p", ":">>,
     <<"H", "T", "T", "P", "S", ":">>,
     <<"h", "t", "t", "p", "s">>,
     <<"m", "a", "i", "l", "t", "o", ":">>}

UrlHosts ==
    {<<"i", ".", "i", "m", "g", "u", "r", ".", "c", "o", "m">>,
     <<"c", "d", "n", ".", "d", "i", "s", "c", "o", "r", "d", "a", "p", "p", ".", "c", "o", "m">>,
     <<"c", "d", "n", ".", "d", "i", "s", "c", "o", "r", "d", "a", "p", "p", ".", "c", "o", "m", "p", "a", "n", "y">>,
     <<"i", "m", "g", "u", "r", ".", "c", "o", "m">>,
     <<"I", ".", "I", "m", "g", "u", "r", ".", "C", "o", "m">>,
     <<"e", "v", "i", "l", ".", "i", "o">>,
     <<"i", ".", "i", "m", "g", "u", "r", ".", "c", "o", "m", ".", "e", "v", "i", "l", ".", "i", "o">>,
     <<"u", "s", "e", "r", "@", "i", ".", "i", "m", "g", "u", "r", ".", "c", "o", "m">>,
     <<"i", ".", "i", "m", "g", "u", "r", ".", "c", "o", "m", "@", "e", "v", "i", "l", ".", "i", "o">>,
     <<"i", ".", "i", "m", "g", "u", "r", ".", "c", "o", "m", ":", "8", "0", "8", "0">>,
     <<"i", ".", "i", "m", "g", "u", "r", ".", "c", "o", "m", ":", "x">>,
     <<>>}

UrlPaths ==
    {<<"/", "1", "2", "3", "4", "5", "6", "7", "8", "9", "0", "1", "2", "3", "4", "5", "6", "7", "8", "9", ".", "p", "n", "g">>,
     <<"/", "a", "v", "a", "t", "a", "r", "s", "/", "1", "/", "2", ".", "g", "i", "f">>,
     <<"/", "1", "2", "3", "4", "5", "6", "7", "8", "9", "0", "1", "2", "3", "4", "5", "6", "7", "8", "9", ".", "m", "p", "3">>,
     <<"/", "a", "p", "n", "g">>,
     <<"/", "a", ".", "P", "N", "G">>,
     <<"/", "a", ".", "p", "n", "g", "/">>,
     <<>>,
     <<"/", "a", ".", "j", "p", "e", "g">>}

UrlSuffixes ==
    {<<>>,
     <<"?", "s", "=", "1">>,
     <<"#", "x", ".", "p", "n", "g">>,
     <<"?", "f", "=", "a", ".", "p", "n", "g">>}

HelloWorld == <<"h", "e", "l", "l", "o", " ", "w", "o", "r", "l", "d">>

AvatarUrls ==
    {scheme \o <<"/", "/">> \o host \o path \o suffix :
        scheme \in UrlSchemes, host \in UrlHosts, path \in UrlPaths,
        suffix \in UrlSuffixes}
    \cup {HelloWorld, <<>>}

\* the call of validate_avatar_url, on any of the urls
validate_avatar_url_call ==
    /\ avatarResult = "none"
    /\ \E url \in AvatarUrls :
          /\ avatarUrl' = url
          /\ avatarResult' = IF validate_avatar_url(url) THEN "true" ELSE "false"
    /\ UNCHANGED <<machineVars, userVars, createVars>>
    /\ UNCHANGED routeVars

InitAvatar ==
    /\ \E id \in {"unset"} : MachineInit([m \in Machines |-> NoDoc], id)
    /\ UserInit([u \in StoredNames |-> NoUser])
    /\ CreateInit

NextAvatar ==
    \/ validate_avatar_url_call

SpecAvatar == InitAvatar /\ [][NextAvatar]_vars

----------------------------------------------------------------------------
(* router.post("/signup", ...) *)

SignupMinUsername == 3
SignupMaxUsername == 30
SignupMinPassword == 3

SignupPasswordChars ==
    Letters \cup Digits
    \cup {"!", "@", "#", "$", "%", "^", "&", "*", "(", ")", "_", "+"}

\* Joi.string().alphanum().min(3).max(30).required()
schema_username(username) ==
    /\ Len(username) >= SignupMinUsername
    /\ Len(username) <= SignupMaxUsername
    /\ \A i \in 1..Len(username) : username[i] \in Letters \cup Digits

\* the pattern has no end anchor: it asks for three characters of the class
\* at the start and nothing of what follows them
schema_password(password) ==
    /\ Len(password) >= SignupMinPassword
    /\ \A i \in 1..SignupMinPassword : password[i] \in SignupPasswordChars

\* Joi.string().email({ minDomainSegments: 2 }).required(), for addresses of
\* letters, digits, dots and @ whose last domain segment is a registered one
schema_email(email) ==
    /\ Cardinality({i \in 1..Len(email) : email[i] = "@"}) = 1
    /\ email[1] # "@"
    /\ \E i \in 1..Len(email) :
          /\ email[i] = "."
          /\ i < Len(email)
          /\ \E j \in 1..(i - 2) : email[j] = "@"
    /\ \A i \in 1..Len(email) :
          email[i] = "." => (i > 1 /\ i < Len(email)
                             /\ email[i - 1] \notin {".", "@"}
                             /\ email[i + 1] \notin {".", "@"})

\* schema.validateAsync(req.body) resolves; repeat_password is optional and
\* is Joi.ref("password")
schema_valid(body) ==
    /\ schema_username(body.username)
    /\ schema_password(body.password)
    /\ body.has_repeat => body.repeat_password = body.password
    /\ schema_email(body.email)

PwTwo == <<"p", "w">>
PwTail == <<"p", "w", "d", " ", "~">>
NameTwo == <<"a", "b">>
EmailNoDomain == <<"a", "@", "x">>

\* the bodies clients post
SignupBodies ==
    {[username |-> u, password |-> pw, has_repeat |-> FALSE,
      repeat_password |-> <<>>, email |-> em] :
        u \in {NameAlice, NameShort, NameSymbol, NameLong, NameTwo, <<>>},
        pw \in {PwGood, PwShort, PwTwo, PwTail, <<>>},
        em \in {EmailAlice, EmailNoDomain, <<>>}}
    \cup
    {[username |-> u, password |-> pw, has_repeat |-> TRUE,
      repeat_password |-> r, email |-> em] :
        u \in {NameAlice, NameShort, NameSymbol, NameLong, NameTwo, <<>>},
        pw \in {PwGood, PwShort, PwTwo, PwTail, <<>>},
        r \in {PwGood, PwShort},
        em \in {EmailAlice, EmailNoDomain, <<>>}}

\* res.status(code).json(..): the response is written, unless one was
\* written before: then setting the header throws ERR_HTTP_HEADERS_SENT
res_json(sent, code) == IF sent # <<>> THEN sent ELSE Append(sent, code)

res_json_throws(sent) == sent # <<>>

\* a request arrives: the handler runs up to await schema.validateAsync
signup_request ==
    /\ routePc = "idle"
    /\ routeResult = "none"
    /\ \E body \in SignupBodies : routeBody' = body
    /\ routePc' = "validate"
    /\ UNCHANGED <<routeForm, responses, jsonCalls, addCalls, routeResult>>
    /\ UNCHANGED <<machineVars, userVars, createVars, avatarVars>>

\* validateAsync settled. Resolved: form is assigned and User.add is called.
\* Rejected: the catch answers 400 and does not return; the second try reads
\* form.username of the undefined form, the TypeError goes to the second
\* catch, and its res.status(400).json(error) throws out of the handler
signup_validated ==
    /\ routePc = "validate"
    /\ IF schema_valid(routeBody)
       THEN /\ routeForm' = TRUE
            /\ addCalls' = addCalls + 1
            /\ routePc' = "add"
            /\ UNCHANGED <<responses, jsonCalls, routeResult>>
       ELSE /\ routeForm' = FALSE
            /\ responses' = res_json(res_json(responses, 400), 400)
            /\ jsonCalls' = jsonCalls + 2
            /\ addCalls' = addCalls
            /\ routeResult' = IF res_json_throws(res_json(responses, 400))
                              THEN "ERR_HTTP_HEADERS_SENT" ELSE "returned"
            /\ routePc' = "done"
    /\ UNCHANGED routeBody
    /\ UNCHANGED <<machineVars, userVars, createVars, avatarVars>>

\* User.add resolved: res.status(200).json(response)
signup_add_resolved ==
    /\ routePc = "add"
    /\ responses' = res_json(responses, 200)
    /\ jsonCalls' = jsonCalls + 1
    /\ routeResult' = "returned"
    /\ routePc' = "done"
    /\ UNCHANGED <<routeBody, routeForm, addCalls>>
    /\ UNCHANGED <<machineVars, userVars, createVars, avatarVars>>

\* User.add rejected: the catch answers 400
signup_add_rejected ==
    /\ routePc = "add"
    /\ responses' = res_json(responses, 400)
    /\ jsonCalls' = jsonCalls + 1
    /\ routeResult' = "returned"
    /\ routePc' = "done"
    /\ UNCHANGED <<routeBody, routeForm, addCalls>>
    /\ UNCHANGED <<machineVars, userVars, createVars, avatarVars>>

InitSignup ==
    /\ \E id \in {"unset"} : MachineInit([m \in Machines |-> NoDoc], id)
    /\ UserInit([u \in StoredNames |-> NoUser])
    /\ CreateInit

NextSignup ==
    \/ signup_request
    \/ signup_validated
    \/ signup_add_resolved
    \/ signup_add_rejected

SpecSignup == InitSignup /\ [][NextSignup]_vars

----------------------------------------------------------------------------
(* Properties *)

\* the number of promises of the sweep that are operation op on machine m
Issued(op, m) ==
    Cardinality({i \in 1..Len(promises) :
                    promises[i].op = op /\ promises[i].m = m})

\* the age, at the sweep's loop, of the last_update the sweep read for m
ReadAge(m) == sweepNow - sweepRead[m].last_update

\* the sweep has read m, and m had reported
ReadDefined(m) ==
    sweepRead[m] # NoDoc /\ sweepRead[m].last_update # Undefined

\* C1: every successful login_machine leaves the matched machine stored with
\* status Online and last_update equal to the time of the call.
C1_HeartbeatRefreshes ==
    [][(loginPc = "save" /\ loginResult' = "ok")
         => (db'[loginM].status = Online /\ db'[loginM].last_update = clock)]_vars

\* C2: in a sweep, every machine read with last_update undefined or older
\* than 30 days gets exactly one delete and no save, whatever its status.
C2_StaleIsEvicted ==
    sweepPc = "settle" =>
        \A m \in Machines :
            (sweepRead[m] # NoDoc
             /\ (sweepRead[m].last_update = Undefined \/ ReadAge(m) > ThirtyDays))
            => (Issued("delete", m) = 1 /\ Issued("save", m) = 0)

\* C2 witness: a sweep that read an Online machine older than 30 days (which
\* also meets the demotion condition) and a machine that never reported.
C2_Witness ==
    /\ sweepPc = "settle"
    /\ \E m \in Machines :
          /\ ReadDefined(m)
          /\ sweepRead[m].status = Online
          /\ ReadAge(m) > ThirtyDays
          /\ Issued("delete", m) = 1
    /\ \E m \in Machines :
          /\ sweepRead[m] # NoDoc
          /\ sweepRead[m].last_update = Undefined
          /\ Issued("delete", m) = 1

\* C3: in a sweep, every Online machine read with 10 s < age <= 30 days is
\* set Offline and saved once, and is not deleted.
C3_QuietIsDemoted ==
    sweepPc = "settle" =>
        \A m \in Machines :
            (ReadDefined(m)
             /\ sweepRead[m].status = Online
             /\ ReadAge(m) > TenSeconds
             /\ ReadAge(m) <= ThirtyDays)
            => (/\ Issued("save", m) = 1
                /\ Issued("delete", m) = 0
                /\ sweepDocs[m].status = Offline)

\* C3 witness: a sweep that read an Online machine exactly 30 days old, and
\* whose save has been written.
C3_Witness ==
    /\ sweepPc = "settle"
    /\ \E i \in 1..Len(promises) :
          /\ promises[i].op = "save"
          /\ promises[i].state = "fulfilled"
          /\ sweepRead[promises[i].m].status = Online
          /\ ReadAge(promises[i].m) = ThirtyDays
          /\ db[promises[i].m].status = Offline

\* the machines C4 is about: reported at most 10 s ago, or Offline and at
\* most 30 days old
C4_Fresh(m) ==
    /\ ReadDefined(m)
    /\ \/ ReadAge(m) <= TenSeconds
       \/ sweepRead[m].status = Offline /\ ReadAge(m) <= ThirtyDays

\* C4: in a sweep, a machine that reported at most 10 s ago, and an Offline
\* machine at most 30 days old, gets no promise, its document is not
\* assigned to, and no write of the sweep changes what is stored for it.
C4_FreshIsUntouched ==
    /\ [](sweepPc = "settle" =>
            \A m \in Machines :
                C4_Fresh(m) =>
                    /\ Issued("delete", m) = 0
                    /\ Issued("save", m) = 0
                    /\ sweepDocs[m] = sweepRead[m])
    /\ [][(sweepPc = "settle" /\ promises' # promises) =>
            \A m \in Machines : C4_Fresh(m) => db'[m] = db[m]]_vars

\* C4 witness: a sweep that read an Online machine exactly 10 s old and wrote
\* the eviction of the other machine.
C4_Witness ==
    /\ sweepPc = "settle"
    /\ \E m \in Machines :
          /\ C4_Fresh(m)
          /\ sweepRead[m].status = Online
          /\ ReadAge(m) = TenSeconds
          /\ db[m] = sweepRead[m]
    /\ \E i \in 1..Len(promises) : promises[i].state = "fulfilled"

\* C5 (the sweeps of the scenario): a sweep more than 10 s (and at most 30
\* days) after the last successful heartbeat of an Online machine demotes
\* it, and a sweep at most 10 s after that heartbeat issues nothing for it.
C5_SweepFollowsHeartbeat ==
    [][(sweepPc = "find" /\ sweepPc' = "settle") =>
         \A m \in Machines :
            (db[m] # NoDoc /\ db[m].status = Online /\ heartbeat[m] # Undefined)
            => /\ (clock - heartbeat[m] > TenSeconds
                   /\ clock - heartbeat[m] <= ThirtyDays)
                  => \E i \in 1..Len(promises') :
                        promises'[i] = [op |-> "save", m |-> m,
                                        state |-> "pending"]
               /\ (clock - heartbeat[m] <= TenSeconds)
                  => \A i \in 1..Len(promises') : promises'[i].m # m]_vars

\* what section 4.2's reap_check(now) yields for a document read by a sweep
Expected(m) ==
    IF sweepRead[m].last_update = Undefined \/ ReadAge(m) > ThirtyDays
    THEN "delete"
    ELSE IF sweepRead[m].status = Online /\ ReadAge(m) > TenSeconds
         THEN "save"
         ELSE "none"

\* the sweep issued for every document it read what reap_check yields
IssuedAsExpected ==
    \A m \in Machines :
        /\ Issued("delete", m) = (IF sweepRead[m] # NoDoc /\ Expected(m) = "delete"
                                  THEN 1 ELSE 0)
        /\ Issued("save", m) = (IF sweepRead[m] # NoDoc /\ Expected(m) = "save"
                                THEN 1 ELSE 0)

\* no sweep of this process has read or written the store
NoSweepRan == sweepPc = "idle" /\ promises = <<>> /\ sweepResult \in {"none", "skipped"}

\* C6 as stated: with SHARD_ID set to a value other than "1" no sweep writes;
\* with SHARD_ID unset or "1" the sweep issues what reap_check yields.
C6_AsStated ==
    /\ shard \notin {"unset", "1"} => NoSweepRan
    /\ shard \in {"unset", "1"} =>
          /\ sweepResult # "skipped"
          /\ sweepPc = "settle" => IssuedAsExpected

\* C6 amended: with SHARD_ID set to a non-empty value other than "1" no
\* sweep reads or writes; with SHARD_ID unset, empty or "1" the sweep is
\* not skipped and issues what reap_check yields.
C6_ShardGuard ==
    /\ shard \notin {"unset", "", "1"} => NoSweepRan
    /\ shard \in {"unset", "", "1"} =>
          /\ sweepResult # "skipped"
          /\ sweepPc = "settle" => IssuedAsExpected

\* C6 witness: shard "2" skipped its sweep although a machine never reported.
C6_Witness ==
    /\ shard = "2"
    /\ sweepResult = "skipped"
    /\ \E m \in Machines : db[m] # NoDoc /\ db[m].last_update = Undefined

\* C7: a login with an unknown username and a login with a wrong password
\* are rejected with the same error.
C7_SameRejection ==
    \A f \in failures, g \in failures : f[2] = g[2]

\* C8: the sweep leaves its join only when every promise has settled,
\* fulfilled or rejected, and it then resolves: a rejection fails neither
\* the other promises nor the sweep.
C8_AllSettle ==
    [][(sweepPc = "settle" /\ sweepPc' # "settle") =>
         /\ \A i \in 1..Len(promises) :
               promises[i].state \in {"fulfilled", "rejected"}
         /\ sweepResult' = "resolved"]_vars

\* C8 witness: every promise has settled, one rejected and, after it,
\* another fulfilled with its write in the store.
C8_Witness ==
    /\ sweepPc = "settle"
    /\ Len(promises) = 2
    /\ promises[1].state = "rejected"
    /\ promises[2].state = "fulfilled"
    /\ promises[2].op = "delete"
    /\ db[promises[2].m] = NoDoc
    /\ db[promises[1].m] = sweepRead[promises[1].m]

\* C9 (its scheduling part): after a sweep whose bulk read failed, the
\* process, if it goes on, has the 24-hour interval installed.
C9_NextSweepScheduled ==
    (sweepResult = "rejected" /\ proc = "running") => timerInstalled

\* C10: only a write of a sweep turns a stored Online into Offline; a
\* machine stored Online has the last_update its last heartbeat set; a
\* successful login_machine that read the machine Offline stores it Online.
C10_OnlineIsRecent ==
    /\ [](\A m \in Machines :
            (db[m] # NoDoc /\ db[m].status = Online)
            => (db[m].last_update # Undefined
                /\ db[m].last_update = heartbeat[m]))
    /\ [][/\ \A m \in Machines :
               (db[m].status = Online /\ db'[m].status = Offline)
               => \E i \in 1..Len(promises) :
                     /\ promises[i] = [op |-> "save", m |-> m,
                                       state |-> "pending"]
                     /\ promises'[i].state = "fulfilled"
          /\ (loginPc = "save" /\ loginResult' = "ok"
              /\ db[loginM].status = Offline)
             => db'[loginM].status = Online]_vars

\* the username or the email of a form is that of a stored user
coll_taken(coll, mails, username, email) ==
    \/ \E u \in DOMAIN coll : u = username /\ coll[u] # NoUser
    \/ \E u \in DOMAIN mails : mails[u] # NoUser /\ mails[u] = email

\* C11: a new_user whose username or email is taken creates no user and,
\* when create reports the duplicate key, is rejected with "user.exists";
\* every other error create throws is the rejection, unchanged, and is
\* never "user.exists".
C11_DuplicateIsUserExists ==
    [][(userPc = "create" /\ userPc' = "idle") =>
         /\ (coll_taken(users, emails, userName, userEmail)
             => (users' = users /\ emails' = emails /\ userResult' # "ok"))
         /\ (userError' = DuplicateKeyError => userResult' = "user.exists")
         /\ (userError' \notin {DuplicateKeyError, NoError}
             => (userResult' = userError' /\ userResult' # "user.exists"))]_vars

\* C11 witness: a signup with a taken username was rejected with
\* "user.exists" and the stored user is the first one.
C11_Witness ==
    /\ userResult = "user.exists"
    /\ userError = DuplicateKeyError
    /\ userName \in DOMAIN users
    /\ users[userName] # NoUser
    /\ users[userName] # userPw

\* no stored machine has the access token tok
NoMachineHas(tok) ==
    \A m \in Machines : db[m] = NoDoc \/ access_token(m) # tok

\* C12: a login_machine whose lookup finds no stored machine with the token
\* is rejected with "Invalid access token" and writes nothing.
C12_UnknownTokenRejected ==
    [][(/\ loginPc = "find"
        /\ loginPc' # "find"
        /\ loginResult' # "storage.error"
        /\ NoMachineHas(loginTok))
       => (/\ loginPc' = "idle"
           /\ loginResult' = "Invalid access token"
           /\ db' = db
           /\ heartbeat' = heartbeat)]_vars

\* C12 witness: a login was rejected with "Invalid access token" while both
\* machines are stored, one of them Offline with its last_update.
C12_Witness ==
    /\ loginResult = "Invalid access token"
    /\ \A m \in Machines : db[m] # NoDoc
    /\ \E m \in Machines :
          db[m].status = Offline /\ db[m].last_update # Undefined

\* a stored user has the uuid owner
OwnerResolves(owner) ==
    \E u \in DOMAIN users : users[u] # NoUser /\ user_uuid(u) = owner

\* C13: every machine that new_machine created has an owner_uuid that is
\* the uuid of a stored user (the users do not change in SpecCreate), and
\* a call whose owner does not resolve does not end well.
C13_OwnerResolves ==
    /\ \A m \in Machines :
          machineMeta[m] # NoMeta => OwnerResolves(machineMeta[m].owner_uuid)
    /\ (createResult = "ok" /\ createArgs.op = "new_machine")
          => OwnerResolves(createArgs.owner_uuid)

\* C14: the step that ends a delete_user call after its lookup removes the
\* user when the stored password matched, and leaves every user record as
\* it was when the user was not found or the password did not match.
C14_DeletesOnlyOnMatch ==
    [][(userPc \in {"delfind", "delcompare"} /\ userPc' = "idle")
       => IF /\ userPc = "delcompare"
             /\ users[userName] # NoUser
             /\ users[userName] = userPw
          THEN /\ users'[userName] = NoUser
               /\ \A u \in DOMAIN users : u # userName => users'[u] = users[u]
          ELSE users' = users]_vars

\* a field of the input is not as the data model requires it
Malformed(input) ==
    IF input.op = "new_machine"
    THEN \/ ~validate_uuid(input.hardware_uuid)
         \/ ~validate_uuid(input.owner_uuid)
         \/ ~validate_hostname(input.hostname)
    ELSE \/ ~validate_uuid(input.owner_uuid)
         \/ Len(input.name) < MinLabelName
         \/ Len(input.name) > MaxLabelName
         \/ \E i \in 1..Len(input.name) :
               input.name[i] \notin Letters \cup Whitespace \cup Digits
                                     \cup {"-", "_"}
         \/ (input.color # <<>> /\ ~validate_hex_color(input.color))
         \/ (input.icon # "" /\ input.icon \notin LABEL_ICONS)
         \/ Len(input.description) > MaxDescription

InvalidInput ==
    {"invalid.hardware_uuid", "invalid.owner_uuid", "invalid.hostname",
     "invalid.label.name", "invalid.hex.color", "invalid.label.icon",
     "invalid.label.description"}

\* C15: a new_machine or new_label call with a malformed field returns at
\* once with an invalid-input rejection: it issues no storage call and no
\* record is created or changed.
C15_FailsFast ==
    [][(createPc = "idle" /\ createPc' \in {"idle", "machine", "label"}
        /\ createArgs' # NoArgs /\ Malformed(createArgs'))
       => (/\ createPc' = "idle"
           /\ createResult' \in InvalidInput
           /\ db' = db
           /\ machineMeta' = machineMeta
           /\ labels' = labels)]_vars

\* C17: every stored label has a name of 3 to 16 characters, none of them
\* an uppercase letter or whitespace.
C17_StoredNamesNormalised ==
    \A l \in labels :
       /\ Len(l.name) >= MinLabelName
       /\ Len(l.name) <= MaxLabelName
       /\ \A i \in 1..Len(l.name) :
             l.name[i] \notin (Letters \ LowerLetters) \cup Whitespace

\* C16: a login_machine that succeeds right after another successful one
\* for the same machine (same time, the machine still stored as the first
\* call left it) leaves the machine as the first call is to leave it:
\* status Online and last_update the current time.
C16_SecondHeartbeatSameState ==
    [][(/\ loginPc = "save"
        /\ loginResult' = "ok"
        /\ heartbeat[loginM] = clock
        /\ db[loginM] # NoDoc
        /\ db[loginM].status = Online)
       => db'[loginM] = [status |-> Online, last_update |-> clock]]_vars

\* the sweep's save() of m has the given state
SweepSave(m, st) ==
    \E i \in 1..Len(promises) :
       promises[i].m = m /\ promises[i].op = "save" /\ promises[i].state = st

\* C19: a machine whose login_machine completed between the sweep's read
\* and the sweep's save() was read by that sweep as Online with a
\* last_update older than ten seconds, and the sweep's save(), when it
\* fulfils, stores the machine as Offline over the status the login left.
C19_SweepSaveOverwrites ==
    /\ [](\A m \in raced :
             /\ sweepPc = "settle"
             /\ sweepRead[m] # NoDoc
             /\ sweepRead[m].status = Online
             /\ ReadAge(m) > TenSeconds
             /\ heartbeat[m] >= sweepNow)
    /\ [][\A m \in raced :
             (SweepSave(m, "pending") /\ SweepSave(m, "fulfilled")')
             => (db[m].status = Online /\ db'[m].status = Offline)]_vars

\* the race has happened: the login completed and answered ok, then the
\* sweep's save() fulfilled, and the machine is stored as Offline
C19_Witness ==
    \E m \in raced :
       /\ SweepSave(m, "fulfilled")
       /\ sweepRead[m].status = Online
       /\ ReadAge(m) > TenSeconds
       /\ db[m] # NoDoc
       /\ db[m].status = Offline
       /\ heartbeat[m] >= sweepNow
       /\ loginResult = "ok"

\* the sweep's delete() of m has fulfilled
SweepDeleted(m) ==
    \E i \in 1..Len(promises) :
       /\ promises[i].m = m
       /\ promises[i].op = "delete"
       /\ promises[i].state = "fulfilled"

\* C20: a machine that is not stored stays not stored, whatever the sweep
\* and login_machine do next, and a login_machine whose lookup completes
\* for the token of a machine that is not stored is rejected with
\* "Invalid access token".
C20_EvictionIsTerminal ==
    [][/\ \A m \in Machines : db[m] = NoDoc => db'[m] = NoDoc
       /\ \A m \in Machines :
             (/\ db[m] = NoDoc
              /\ loginPc = "find"
              /\ loginTok = access_token(m)
              /\ loginPc' # "find"
              /\ loginResult' # "storage.error")
             => (loginPc' = "idle" /\ loginResult' = "Invalid access token")]_vars

\* a login_machine read the machine, the sweep's delete() then fulfilled,
\* and the login's save() is still to come
C20_Witness ==
    /\ loginPc = "save"
    /\ SweepDeleted(loginM)
    /\ db[loginM] = NoDoc
    /\ loginDoc.status = Online

\* C18: validate_avatar_url returns true exactly for the urls that parse,
\* have the protocol https:, a hostname that is one of the trusted hosts
\* and a path that ends with one of the allowed extensions.
C18_AvatarUrlExactly ==
    avatarResult # "none" =>
       (avatarResult = "true"
        <=> /\ validate_url(avatarUrl)
            /\ URL_protocol(avatarUrl) = <<"h", "t", "t", "p", "s", ":">>
            /\ URL_hostname(avatarUrl) \in TRUSTED_IMAGE_HOSTERS
            /\ \E ext \in ALLOWED_IMAGE_EXTENSIONS :
                  endsWith(URL_pathname(avatarUrl), ext))

\* an https url with an image path whose host starts with a trusted host
\* and is not one was refused
C18_Witness ==
    /\ avatarResult = "false"
    /\ validate_url(avatarUrl)
    /\ URL_protocol(avatarUrl) = <<"h", "t", "t", "p", "s", ":">>
    /\ \E hoster \in TRUSTED_IMAGE_HOSTERS :
          startsWith(URL_hostname(avatarUrl), hoster)
    /\ URL_hostname(avatarUrl) \notin TRUSTED_IMAGE_HOSTERS
    /\ \E ext \in ALLOWED_IMAGE_EXTENSIONS :
          endsWith(URL_pathname(avatarUrl), ext)

\* C21: when the handler of POST /signup is over it has answered once: one
\* response was written, res.json was called once and the handler returned;
\* for a body that fails the validation the answer is 400 and User.add was
\* not called.
C21_OneResponse ==
    routePc = "done" =>
       /\ Len(responses) = 1
       /\ jsonCalls = 1
       /\ routeResult = "returned"
       /\ ~schema_valid(routeBody) => (responses = <<400>> /\ addCalls = 0)

============================================================================
